---- MODULE Spec2Model ----
(***************************************************************************)
(* Field descriptors of redisco (redisco/models/attributes.py): the scalar *)
(* Attribute with its lazy default, cache slot and validation pipeline,    *)
(* the ReferenceField, the ListField and the Counter.                      *)
(*                                                                         *)
(* Python values are records [k |-> kind, v |-> payload]; a Python string  *)
(* is a sequence of one-character strings.  Every operation is one action; *)
(* the variable last records what the most recent operation was given,     *)
(* what it returned or raised, and which store reads it issued.            *)
(***************************************************************************)
EXTENDS Integers, Sequences, FiniteSets, TLC

VARIABLES
  field,        \* the scalar descriptor: required, unique, validator, default
  inst,         \* the instance of the scalar field: id and cache slot _<name>
  stored,       \* the index of the model: id -> encoded value of the field
  refField,     \* the reference descriptor: default
  refInst,      \* owner of the reference: cache slot _<name> and <name>_id
  targets,      \* identifiers the target model's get_by_id resolves
  listField,    \* the list descriptor: default, _redisco_model
  listInst,     \* owner of the list: is_new() and cache slot _<name>
  members,      \* List(key).members: the backing sequence in the store
  ctrField,     \* the counter descriptor: default
  ctrInst,      \* owner of the counter: is_new() and the unused slot _<name>
  hash,         \* db.hget(instance.key(), name): stored counter text or nil
  last,         \* the most recent operation: op, arg, ret, exc, reads, ...
  hist          \* history kept for the properties (never read by the code)

vars == <<field, inst, stored, refField, refInst, targets, listField,
          listInst, members, ctrField, ctrInst, hash, last, hist>>

(***************************************************************************)
(* Bounds of the model.                                                    *)
(***************************************************************************)
MaxLen == 2       \* longest cached string
MaxId == 2        \* identifiers 1..MaxId of stored records and targets
MaxList == 2      \* longest backing sequence of a list field
MaxCount == 12    \* counters range over -MaxCount..MaxCount

FieldName == "name"

(***************************************************************************)
(* Python values.                                                          *)
(***************************************************************************)
None == [k |-> "none", v |-> 0]
Absent == [k |-> "absent", v |-> 0]        \* no such attribute on the object
StrV(s) == [k |-> "str", v |-> s]
IntV(n) == [k |-> "int", v |-> n]
BoolV(b) == [k |-> "bool", v |-> b]
BytesV(s) == [k |-> "bytes", v |-> s]      \* a string as the store returns it
ListV(s) == [k |-> "list", v |-> s]
ObjV(cls, id) == [k |-> "obj", v |-> <<cls, id>>]   \* a model instance
NoId == 0                                   \* the instance has no _id
ClassV(n) == [k |-> "class", v |-> n]       \* a type object
NameV(n) == [k |-> "name", v |-> n]         \* a model named by a string
NoAttname == "None"                         \* _attname is None
DerivedAttname == "name_id"                 \* self.name + '_id'

\* the target type of a list field once it is resolved
Resolved(model) == IF model THEN ClassV("Target") ELSE ClassV("int")

Chars == {"1", " "}
StringsUpTo(n) == UNION {[1..m -> Chars] : m \in 0..n}
Strings == StringsUpTo(MaxLen)
Values == {None} \cup {StrV(s) : s \in Strings}
                 \cup {IntV(n) : n \in {0, 1}}
                 \cup {BoolV(b) : b \in BOOLEAN}
Ids == 1..MaxId

\* bool(val)
Truthy(val) ==
  CASE val.k = "none" -> FALSE
    [] val.k = "str" -> Len(val.v) > 0
    [] val.k = "int" -> val.v # 0
    [] val.k = "bool" -> val.v
    [] val.k = "list" -> Len(val.v) > 0
    [] OTHER -> TRUE

Digit(d) == CASE d = 0 -> "0" [] d = 1 -> "1" [] d = 2 -> "2" [] d = 3 -> "3"
              [] d = 4 -> "4" [] d = 5 -> "5" [] d = 6 -> "6" [] d = 7 -> "7"
              [] d = 8 -> "8" [] d = 9 -> "9"

RECURSIVE NatToStr(_)
NatToStr(n) == IF n < 10 THEN <<Digit(n)>>
               ELSE Append(NatToStr(n \div 10), Digit(n % 10))

\* str(n) of an integer
IntToStr(n) == IF n < 0 THEN <<"-">> \o NatToStr(-n) ELSE NatToStr(n)

\* str(value)
Str(val) ==
  CASE val.k = "str" -> val.v
    [] val.k = "int" -> IntToStr(val.v)
    [] val.k = "bool" -> IF val.v THEN <<"T", "r", "u", "e">>
                                  ELSE <<"F", "a", "l", "s", "e">>
    [] val.k = "none" -> <<"N", "o", "n", "e">>

DigitVal(c) == CHOOSE d \in 0..9 : Digit(d) = c

RECURSIVE ParseNat(_)
ParseNat(s) == IF s = <<>> THEN 0
               ELSE 10 * ParseNat(SubSeq(s, 1, Len(s) - 1)) + DigitVal(s[Len(s)])

\* int(s) of a decimal string
ParseInt(s) == IF Head(s) = "-" THEN 0 - ParseNat(Tail(s)) ELSE ParseNat(s)

IsSpace(c) == c = " "

RECURSIVE LStrip(_)
LStrip(s) == IF s # <<>> /\ IsSpace(Head(s)) THEN LStrip(Tail(s)) ELSE s

RECURSIVE RStrip(_)
RStrip(s) == IF s # <<>> /\ IsSpace(s[Len(s)])
             THEN RStrip(SubSeq(s, 1, Len(s) - 1)) ELSE s

\* s.strip()
Strip(s) == RStrip(LStrip(s))

(***************************************************************************)
(* Collaborators outside attributes.py, taken at their interface.          *)
(***************************************************************************)
\* instance.id: the identifier, or MissingID when the instance has none
IdOf(i) == IF i.id = NoId THEN [exc |-> "MissingID", val |-> NoId]
                          ELSE [exc |-> "none", val |-> i.id]

\* instance.__class__.objects.filter(name=encoded): the matching records
Filter(st, encoded) == {i \in DOMAIN st : st[i] = encoded}

\* matches.first(): a record of the result set
First(matches) == CHOOSE i \in matches : TRUE

\* the configured validator called as validator(name, val)
CallValidator(v, name, val) ==
  CASE v = "accept" -> <<>>
    [] v = "reject" -> <<<<name, "custom1">>, <<name, "custom2">>>>

(***************************************************************************)
(* Attribute: the scalar descriptor.                                       *)
(***************************************************************************)
\* a __set__ that coerces to the field's type at assignment
AttrSet_Coerce(i, value) ==
  [i EXCEPT !.cache = IF value = None THEN None ELSE StrV(Str(value))]

\* Attribute.__set__: setattr(instance, '_' + name, value)
AttrSet(i, value) == [i EXCEPT !.cache = value]

\* a __get__ that returns the default without caching it
AttrGet_NoCache(f, i, produced) ==
  IF i.cache # Absent
  THEN [inst |-> i, ret |-> i.cache, calls |-> 0, reads |-> <<>>]
  ELSE [inst |-> i, calls |-> IF f.default.callable THEN 1 ELSE 0,
        ret |-> IF f.default.callable THEN produced ELSE f.default.value,
        reads |-> <<>>]

\* Attribute.__get__: the cached value, else the default, evaluated (called
\* when callable; produced is what the producer returns), cached, returned
AttrGet(f, i, produced) ==
  IF i.cache # Absent
  THEN [inst |-> i, ret |-> i.cache, calls |-> 0, reads |-> <<>>]
  ELSE LET default == IF f.default.callable THEN produced
                                            ELSE f.default.value
       IN [inst |-> AttrSet(i, default), ret |-> default,
           calls |-> IF f.default.callable THEN 1 ELSE 0, reads |-> <<>>]

\* Attribute.typecast_for_storage: str(value)
typecast_for_storage(value) == Str(value)

\* Attribute.acceptable_types: isinstance(val, str)
IsAcceptable(val) == val.k = "str"

\* a uniqueness check that objects only to more than one matching record
validate_uniqueness_ManyOnly(i, st, val) ==
  IF Cardinality(Filter(st, typecast_for_storage(val))) > 1
  THEN [exc |-> "none", error |-> <<<<FieldName, "not unique">>>>]
  ELSE [exc |-> "none", error |-> <<>>]

\* a uniqueness check that compares identifiers without the no_id guard
validate_uniqueness_NoGuard(i, st, val) ==
  LET matches == Filter(st, typecast_for_storage(val))
      notUnique == [exc |-> "none", error |-> <<<<FieldName, "not unique">>>>]
      unique == [exc |-> "none", error |-> <<>>]
  IN IF Cardinality(matches) > 0
     THEN IF Cardinality(matches) # 1 THEN notUnique
          ELSE IF IdOf(i).exc # "none"
               THEN [exc |-> IdOf(i).exc, error |-> <<>>]
          ELSE IF First(matches) # IdOf(i).val THEN notUnique
          ELSE unique
     ELSE unique

\* Attribute.validate_uniqueness: the error, and an exception that escapes
validate_uniqueness(i, st, val) ==
  LET encoded == typecast_for_storage(val)
      matches == Filter(st, encoded)
      no_id == IdOf(i).exc = "MissingID"
      notUnique == [exc |-> "none", error |-> <<<<FieldName, "not unique">>>>]
      unique == [exc |-> "none", error |-> <<>>]
  IN IF Cardinality(matches) > 0
     THEN IF Cardinality(matches) # 1 \/ no_id THEN notUnique
          ELSE IF IdOf(i).exc # "none"
               THEN [exc |-> IdOf(i).exc, error |-> <<>>]
          ELSE IF First(matches) # IdOf(i).val THEN notUnique
          ELSE unique
     ELSE unique

\* the type rule of Attribute.validate
TypeRule(val) ==
  IF val # None /\ ~IsAcceptable(val) THEN <<<<FieldName, "bad type">>>>
                                      ELSE <<>>

\* a required rule that tests the string without trimming it
RequiredRule_NoStrip(f, val) ==
  IF f.required /\ (val = None \/ Str(val) = <<>>)
  THEN <<<<FieldName, "required">>>> ELSE <<>>

\* the required rule of Attribute.validate
RequiredRule(f, val) ==
  IF f.required /\ (val = None \/ Strip(Str(val)) = <<>>)
  THEN <<<<FieldName, "required">>>> ELSE <<>>

\* the uniqueness rule of Attribute.validate
UniqueRule(f, i, st, val) ==
  IF Truthy(val) /\ f.unique
  THEN validate_uniqueness(i, st, val) @@ [reads |-> <<"filter">>]
  ELSE [exc |-> "none", error |-> <<>>, reads |-> <<>>]

\* the custom rule of Attribute.validate
ValidatorRule(f, val) ==
  IF f.validator # "none" THEN CallValidator(f.validator, FieldName, val)
                          ELSE <<>>

\* an accumulation that stops at the first rule that failed
Accumulate_FirstOnly(e1, e2, e3, e4) ==
  IF e1 # <<>> THEN e1 ELSE IF e2 # <<>> THEN e2
  ELSE IF e3 # <<>> THEN e3 ELSE e4

\* errors.append / errors.extend over the four rules, in program order
Accumulate(e1, e2, e3, e4) == e1 \o e2 \o e3 \o e4

\* Attribute.validate
validate(f, i, st, produced) ==
  LET got == AttrGet(f, i, produced)
      val == got.ret
      u == UniqueRule(f, i, st, val)
      errors == Accumulate(TypeRule(val), RequiredRule(f, val), u.error,
                           ValidatorRule(f, val))
  IN [inst |-> got.inst, val |-> val, calls |-> got.calls, reads |-> u.reads,
      exc |-> IF u.exc # "none" THEN u.exc
              ELSE IF errors # <<>> THEN "FieldValidationError" ELSE "none",
      errors |-> IF u.exc # "none" THEN <<>> ELSE errors,
      checked |-> Truthy(val) /\ f.unique,
      vargs |-> IF u.exc = "none" /\ f.validator # "none"
                THEN <<<<FieldName, val>>>> ELSE <<>>]

(***************************************************************************)
(* State shared by the specifications.                                     *)
(***************************************************************************)
Validators == {"none", "accept", "reject"}
Defaults == {[callable |-> FALSE, value |-> None],
             [callable |-> FALSE, value |-> StrV(<<"1">>)],
             [callable |-> TRUE, value |-> None]}
Produced == {StrV(<<" ">>), IntV(0)}       \* what a default producer returns
IndexVals == {<<"1">>}                     \* encoded values in the index
NoSet == [k |-> "noset", v |-> 0]

Idle == [op |-> "init", arg |-> None, ret |-> None, exc |-> "none",
         errors |-> <<>>, reads |-> <<>>, calls |-> 0, pre |-> FALSE,
         checked |-> FALSE, vargs |-> <<>>, env |-> {}]
NoHist == [calls |-> 0, first |-> "none", lastSet |-> NoSet,
           rlast |-> NoSet, stale |-> FALSE, count |-> 0, moved |-> FALSE]

FieldIdle == [required |-> FALSE, unique |-> FALSE, validator |-> "none",
              default |-> [callable |-> FALSE, value |-> None]]
InstIdle == [id |-> NoId, cache |-> Absent]

scalarVars == <<field, inst, stored>>
refVars == <<refField, refInst, targets>>
listVars == <<listField, listInst, members>>
ctrVars == <<ctrField, ctrInst, hash>>

RefFieldIdle == [default |-> None, required |-> FALSE, validator |-> "none",
                 arity |-> 2, attname |-> DerivedAttname]
RefInstIdle == [new |-> FALSE, cache |-> Absent, fid |-> Absent]
RefIdle == refField = RefFieldIdle /\ refInst = RefInstIdle /\ targets = {}
ListFieldIdle == [default |-> <<>>, model |-> TRUE, required |-> FALSE,
                  validator |-> "none", arity |-> 2,
                  target_type |-> Resolved(TRUE)]
ListIdle == /\ listField = ListFieldIdle
            /\ listInst = [new |-> TRUE, cache |-> Absent]
            /\ members = <<>>
CtrIdle == /\ ctrField = [default |-> IntV(0)]
           /\ ctrInst = [new |-> TRUE, cache |-> Absent]
           /\ hash = None

(***************************************************************************)
(* Spec: one instance and one scalar Attribute field.                      *)
(***************************************************************************)
Init ==
  /\ field \in [required : BOOLEAN, unique : BOOLEAN,
                validator : Validators, default : Defaults]
  /\ inst \in [id : {NoId} \cup Ids, cache : {Absent}]
  /\ stored \in UNION {[S -> IndexVals] : S \in SUBSET Ids}
  /\ RefIdle /\ ListIdle /\ CtrIdle
  /\ last = Idle
  /\ hist = NoHist

Touch(h, op, calls) ==
  [h EXCEPT !.calls = @ + calls,
            !.first = IF @ = "none" THEN op ELSE @]

\* value = instance.name
Get ==
  \E produced \in Produced :
    LET r == AttrGet(field, inst, produced)
    IN /\ inst' = r.inst
       /\ last' = [Idle EXCEPT !.op = "get", !.ret = r.ret,
                               !.calls = r.calls, !.reads = r.reads, !.pre = inst.cache # Absent]
       /\ hist' = Touch(hist, "get", r.calls)
       /\ UNCHANGED <<field, stored, refVars, listVars, ctrVars>>

\* instance.name = value
Set(value) ==
  /\ inst' = AttrSet(inst, value)
  /\ last' = [Idle EXCEPT !.op = "set", !.arg = value,
                          !.pre = inst.cache # Absent]
  /\ hist' = [Touch(hist, "set", 0) EXCEPT !.lastSet = value]
  /\ UNCHANGED <<field, stored, refVars, listVars, ctrVars>>

\* field.validate(instance)
Validate ==
  \E produced \in Produced :
    LET r == validate(field, inst, stored, produced)
    IN /\ inst' = r.inst
       /\ last' = [Idle EXCEPT !.op = "validate", !.arg = r.val,
                               !.exc = r.exc, !.errors = r.errors,
                               !.reads = r.reads, !.calls = r.calls,
                               !.pre = inst.cache # Absent, !.checked = r.checked,
                               !.vargs = r.vargs]
       /\ hist' = Touch(hist, "get", r.calls)
       /\ UNCHANGED <<field, stored, refVars, listVars, ctrVars>>

Next ==
  \/ Get
  \/ \E value \in Values : Set(value)
  \/ Validate

Spec == Init /\ [][Next]_vars

(***************************************************************************)
(* Properties of the scalar field, checked under Spec.                     *)
(***************************************************************************)
Has(errs, reason) == \E n \in 1..Len(errs) : errs[n] = <<FieldName, reason>>
Count(errs, reason) ==
  Cardinality({n \in 1..Len(errs) : errs[n] = <<FieldName, reason>>})
Rank(err) == CASE err[2] = "bad type" -> 1
               [] err[2] = "required" -> 2
               [] err[2] = "not unique" -> 3
               [] OTHER -> 4
Blank(val) == val = None \/ (val.k = "str" /\ \A n \in 1..Len(val.v) : val.v[n] = " ")
Matching(val) == {m \in DOMAIN stored : stored[m] = Str(val)}
Conflict(val) ==
  \/ Cardinality(Matching(val)) > 1
  \/ Cardinality(Matching(val)) = 1 /\ inst.id = NoId
  \/ Cardinality(Matching(val)) = 1 /\ inst.id # NoId
                                    /\ inst.id \notin Matching(val)
CustomOf(errs) == SelectSeq(errs, LAMBDA e : Rank(e) = 4)

\* C1: one validate call of a base Attribute evaluates the type, required,
\* uniqueness and custom rules in that order and without stopping at the
\* first failure: every rule whose condition holds has its error in the
\* list, the errors are ordered by rule, and exactly one
\* FieldValidationError carrying them is raised when the list is not empty,
\* nothing when it is empty.
C1_ValidateAllRulesInOrder ==
  last.op = "validate" =>
    LET val == last.arg
        errs == last.errors
    IN /\ last.exc = (IF errs # <<>> THEN "FieldValidationError" ELSE "none")
       /\ \A m, n \in 1..Len(errs) : m < n => Rank(errs[m]) <= Rank(errs[n])
       /\ Count(errs, "bad type")
            = (IF val # None /\ val.k # "str" THEN 1 ELSE 0)
       /\ Count(errs, "required")
            = (IF field.required /\ Blank(val) THEN 1 ELSE 0)
       /\ Count(errs, "not unique")
            = (IF field.unique /\ Truthy(val) /\ Conflict(val) THEN 1 ELSE 0)
       /\ CustomOf(errs)
            = (IF field.validator = "reject"
               THEN <<<<FieldName, "custom1">>, <<FieldName, "custom2">>>>
               ELSE <<>>)
       /\ Len(last.vargs) = (IF field.validator = "none" THEN 0 ELSE 1)

\* reached: a validate call that raised the errors of three rules at once
C1_Witness ==
  /\ last.op = "validate" /\ last.exc = "FieldValidationError"
  /\ last.errors = <<<<FieldName, "bad type">>, <<FieldName, "not unique">>,
                     <<FieldName, "custom1">>, <<FieldName, "custom2">>>>

\* C2: when validate runs the uniqueness check it reports (name, 'not
\* unique') exactly when the query for the encoded value returns more than
\* one match, or one match while the instance has no identifier, or one
\* match with another identifier; and MissingID never reaches the caller.
C2_UniquenessDecision ==
  (last.op = "validate" /\ last.checked) =>
    /\ last.exc # "MissingID"
    /\ last.reads = <<"filter">>
    /\ Has(last.errors, "not unique") <=> Conflict(last.arg)
    /\ (Matching(last.arg) = {} \/ Matching(last.arg) = {inst.id})
         => ~Has(last.errors, "not unique")

\* reached: one match, found by an instance that has no identifier
C2_Witness ==
  /\ last.op = "validate" /\ last.checked /\ inst.id = NoId
  /\ Cardinality(Matching(last.arg)) = 1
  /\ Has(last.errors, "not unique")

\* C3: with required=True validate records exactly one (name, 'required')
\* error when the value is None or a string that is empty or all
\* whitespace, and none for any other value.
C3_RequiredRule ==
  (last.op = "validate" /\ field.required) =>
    Count(last.errors, "required") = (IF Blank(last.arg) THEN 1 ELSE 0)

\* reached: a required field validated with a whitespace-only string
C3_Witness ==
  /\ last.op = "validate" /\ field.required
  /\ last.arg.k = "str" /\ Len(last.arg.v) > 0 /\ Blank(last.arg)
  /\ Count(last.errors, "required") = 1

\* C9: the first Get without a cached value evaluates the default (calling
\* it when callable), caches and returns it; the producer is called at most
\* once per instance and field and never when a Set came first; no Get
\* reads the store.
C9_LazyDefault ==
  /\ hist.calls <= 1
  /\ hist.first = "set" => hist.calls = 0
  /\ last.op = "get" => last.reads = <<>>
  /\ (last.op = "get" /\ ~last.pre) =>
       /\ inst.cache = last.ret
       /\ last.calls = (IF field.default.callable THEN 1 ELSE 0)
       /\ last.ret \in (IF field.default.callable THEN Produced
                                                  ELSE {field.default.value})
  /\ (last.op = "get" /\ last.pre) => last.calls = 0 /\ last.ret = inst.cache

\* reached: a Get served from the cache after the producer ran once
C9_Witness ==
  /\ last.op = "get" /\ last.pre /\ field.default.callable
  /\ hist.calls = 1 /\ hist.lastSet = NoSet

\* C10: Set(v) succeeds for every v and stores it unchanged; every Get
\* after it returns v until the next Set, whatever the default is and
\* however many validate calls come in between.
C10_SetIsAuthoritative ==
  /\ last.op = "set" => last.exc = "none" /\ hist.lastSet = last.arg
  /\ hist.lastSet # NoSet =>
       /\ inst.cache = hist.lastSet
       /\ last.op = "get" => last.ret = hist.lastSet
       /\ last.op = "validate" => last.arg = hist.lastSet

\* reached: a Get that returns a wrongly typed value after a failed validate
C10_Witness ==
  /\ last.op = "get" /\ hist.lastSet = IntV(0) /\ last.ret = IntV(0)
  /\ field.default.callable /\ field.required

(***************************************************************************)
(* ReferenceField.                                                         *)
(***************************************************************************)
\* isinstance(value, self.value_type())
IsTarget(value) == value.k = "obj" /\ value.v[1] = "Target"

\* value.id of a model instance
ObjId(o) == IdOf([id |-> o.v[2]])

\* value_type().objects.get_by_id(id): the live object, or None
GetById(live, id) ==
  LET n == CASE id.k = "int" -> id.v
             [] id.k = "bytes" -> ParseInt(id.v)
             [] OTHER -> NoId
  IN IF n \in live THEN ObjV("Target", n) ELSE None

\* a __set__ that leaves the cached object in place
RefSet_KeepCache(i, value) ==
  IF value # None /\ ~IsTarget(value) THEN [inst |-> i, exc |-> "TypeError"]
  ELSE IF value = None
       THEN [inst |-> [i EXCEPT !.fid = None], exc |-> "none"]
  ELSE IF ObjId(value).exc # "none"
       THEN [inst |-> [i EXCEPT !.fid = None], exc |-> ObjId(value).exc]
  ELSE [inst |-> [i EXCEPT !.fid = IntV(ObjId(value).val)], exc |-> "none"]

\* a __set__ that writes the identifier only for a non-null value
RefSet_NoReset(i, value) ==
  IF value # None /\ ~IsTarget(value) THEN [inst |-> i, exc |-> "TypeError"]
  ELSE LET uncached == [i EXCEPT !.cache = Absent]
       IN IF value = None THEN [inst |-> uncached, exc |-> "none"]
          ELSE IF ObjId(value).exc # "none"
               THEN [inst |-> uncached, exc |-> ObjId(value).exc]
          ELSE [inst |-> [uncached EXCEPT !.fid = IntV(ObjId(value).val)],
                exc |-> "none"]

\* a __set__ that checks the type after it has reset the reference
RefSet_LateCheck(i, value) ==
  LET cleared == [i EXCEPT !.cache = Absent, !.fid = None]
  IN IF value # None /\ ~IsTarget(value)
     THEN [inst |-> cleared, exc |-> "TypeError"]
     ELSE IF value = None THEN [inst |-> cleared, exc |-> "none"]
     ELSE IF ObjId(value).exc # "none"
          THEN [inst |-> cleared, exc |-> ObjId(value).exc]
     ELSE [inst |-> [cleared EXCEPT !.fid = IntV(ObjId(value).val)],
           exc |-> "none"]

\* ReferenceField.__set__
RefSet(i, value) ==
  IF value # None /\ ~IsTarget(value) THEN [inst |-> i, exc |-> "TypeError"]
  ELSE LET cleared == [i EXCEPT !.cache = Absent, !.fid = None]
       IN IF value = None THEN [inst |-> cleared, exc |-> "none"]
          ELSE IF ObjId(value).exc # "none"
               THEN [inst |-> cleared, exc |-> ObjId(value).exc]
          ELSE [inst |-> [cleared EXCEPT !.fid = IntV(ObjId(value).val)],
                exc |-> "none"]

\* a __get__ that looks the target up even when <field>_id was never set
RefGet_AlwaysLookup(f, i, live) ==
  IF i.cache # Absent THEN [inst |-> i, ret |-> i.cache, reads |-> <<>>]
  ELSE LET o == GetById(live, i.fid)
       IN [inst |-> [i EXCEPT !.cache = o], ret |-> o,
           reads |-> <<"get_by_id">>]

\* ReferenceField.__get__
RefGet(f, i, live) ==
  IF i.cache # Absent THEN [inst |-> i, ret |-> i.cache, reads |-> <<>>]
  ELSE IF i.fid = Absent
       THEN [inst |-> [i EXCEPT !.cache = f.default], ret |-> f.default,
             reads |-> <<>>]
  ELSE LET o == GetById(live, i.fid)
       IN [inst |-> [i EXCEPT !.cache = o], ret |-> o,
           reads |-> <<"get_by_id">>]

RefValues == {None, IntV(1), ObjV("Other", 1), ObjV("Target", NoId)}
               \cup {ObjV("Target", id) : id \in Ids}
RefDefaults == {None, ObjV("Target", 1)}
IdValues == {IntV(id) : id \in Ids}

ScalarIdle == field = FieldIdle /\ inst = InstIdle /\ stored = <<>>

InitRef ==
  /\ refField \in [default : RefDefaults, required : {FALSE},
                   validator : {"none"}, arity : {2},
                   attname : {DerivedAttname}]
  /\ refInst \in [new : BOOLEAN, cache : {Absent},
                  fid : {Absent, None} \cup IdValues]
  /\ refInst.new => refInst.fid = Absent
  /\ targets \in SUBSET Ids
  /\ ScalarIdle /\ ListIdle /\ CtrIdle
  /\ last = Idle
  /\ hist = NoHist

\* instance.ref = value
RefSetOp(value) ==
  LET r == RefSet(refInst, value)
  IN /\ refInst' = r.inst
     /\ last' = [Idle EXCEPT !.op = "rset", !.arg = value, !.exc = r.exc,
                             !.pre = refInst, !.env = targets]
     /\ hist' = IF r.exc = "TypeError" THEN hist
                ELSE [hist EXCEPT !.rlast = value,
                                  !.stale = r.inst.cache # Absent]
     /\ UNCHANGED <<refField, targets, scalarVars, listVars, ctrVars>>

\* value = instance.ref
RefGetOp ==
  LET r == RefGet(refField, refInst, targets)
  IN /\ refInst' = r.inst
     /\ last' = [Idle EXCEPT !.op = "rget", !.ret = r.ret,
                             !.reads = r.reads, !.pre = refInst,
                             !.env = targets]
     /\ hist' = IF refInst.cache = Absent /\ r.inst.cache # Absent
                THEN [hist EXCEPT !.stale = FALSE] ELSE hist
     /\ UNCHANGED <<refField, targets, scalarVars, listVars, ctrVars>>

\* another client saves a target
TargetSave(id) ==
  /\ id \notin targets
  /\ targets' = targets \cup {id}
  /\ UNCHANGED <<refField, refInst, scalarVars, listVars, ctrVars, last, hist>>

\* another client deletes a target
TargetDelete(id) ==
  /\ id \in targets
  /\ targets' = targets \ {id}
  /\ UNCHANGED <<refField, refInst, scalarVars, listVars, ctrVars, last, hist>>

NextRef ==
  \/ RefGetOp
  \/ \E value \in RefValues : RefSetOp(value)
  \/ \E id \in Ids : TargetSave(id)
  \/ \E id \in Ids : TargetDelete(id)

SpecRef == InitRef /\ [][NextRef]_vars

(***************************************************************************)
(* Properties of the reference field, checked under SpecRef.               *)
(***************************************************************************)
\* the identifier a target carries: None for no target or no identifier
IdValueOf(value) ==
  IF value.k = "obj" /\ value.v[2] # NoId THEN IntV(value.v[2]) ELSE None

\* C4: assigning None to a reference field, whatever was cached and
\* whatever <field>_id held, returns with no cached object and <field>_id
\* None; every Get that follows (until the next assignment) returns None.
C4_ClearReference ==
  /\ (last.op = "rset" /\ last.arg = None) =>
       /\ last.exc = "none"
       /\ refInst.cache = Absent
       /\ refInst.fid = None
  /\ (last.op = "rget" /\ hist.rlast = None) =>
       /\ last.ret = None
       /\ refInst.fid = None

\* reached: None assigned over a cached object and a set identifier
C4_Witness ==
  /\ last.op = "rset" /\ last.arg = None
  /\ last.pre.cache.k = "obj" /\ last.pre.fid.k = "int"
  /\ refInst.cache = Absent /\ refInst.fid = None

\* reached: a Get after the reference was cleared
C4_WitnessGet ==
  /\ last.op = "rget" /\ hist.rlast = None /\ last.ret = None
  /\ refField.default # None

\* C5: once a Set has been made, <field>_id is the identifier of the target
\* of the latest Set that was accepted (None when it was None or carries
\* no identifier), the cached object is never one cached before that Set,
\* and a Get returns the object get_by_id resolved from that identifier.
C5_ReferenceFollowsSet ==
  hist.rlast # NoSet =>
    /\ refInst.fid = IdValueOf(hist.rlast)
    /\ ~hist.stale
    /\ refInst.cache \in {Absent, None}
         \cup {ObjV("Target", id) : id \in {IdValueOf(hist.rlast).v} \cap Ids}
    /\ last.op = "rget" =>
         /\ last.ret = refInst.cache
         /\ last.pre.cache = Absent =>
              /\ last.reads = <<"get_by_id">>
              /\ last.ret = (IF hist.rlast.k = "obj"
                                /\ hist.rlast.v[2] \in last.env
                             THEN ObjV("Target", hist.rlast.v[2]) ELSE None)

\* reached: a Get that resolves the new target after another was cached
C5_Witness ==
  /\ last.op = "rget" /\ last.pre.cache = Absent
  /\ hist.rlast = ObjV("Target", 2) /\ last.ret = ObjV("Target", 2)
  /\ refField.default = ObjV("Target", 1)

(***************************************************************************)
(* Counter.                                                                *)
(***************************************************************************)
\* Counter.__init__: the default, 0 when none was given
CounterDefault(given) == IF given \in {Absent, None} THEN IntV(0) ELSE given

\* db.hget(instance.key(), name)
HGet(h) == h

\* db.hincrby(instance.key(), name, amount), by any client
HIncrBy(h, amount) ==
  BytesV(IntToStr((IF h = None THEN 0 ELSE ParseInt(h.v)) + amount))

\* a __set__ inherited from Attribute
CounterSet_Inherited(i, h, value) ==
  [inst |-> AttrSet(i, value), hash |-> h, exc |-> "none"]

\* Counter.__set__
CounterSet(i, h, value) == [inst |-> i, hash |-> h, exc |-> "AttributeError"]

\* a __get__ that remembers the first value it read
CounterGet_Memo(f, i, h) ==
  IF i.new THEN [inst |-> i, hash |-> h, ret |-> IntV(0), reads |-> <<>>]
  ELSE IF i.cache # Absent
       THEN [inst |-> i, hash |-> h, ret |-> i.cache, reads |-> <<>>]
  ELSE LET v == HGet(h)
           n == IF v = None THEN IntV(0) ELSE IntV(ParseInt(v.v))
       IN [inst |-> AttrSet(i, n), hash |-> h, ret |-> n,
           reads |-> <<"hget">>]

\* Counter.__get__
CounterGet(f, i, h) ==
  IF ~i.new
  THEN LET v == HGet(h)
       IN [inst |-> i, hash |-> h, reads |-> <<"hget">>,
           ret |-> IF v = None THEN IntV(0) ELSE IntV(ParseInt(v.v))]
  ELSE [inst |-> i, hash |-> h, reads |-> <<>>, ret |-> IntV(0)]

Counts == (0 - MaxCount)..MaxCount

InitCounter ==
  /\ ctrField \in {[default |-> CounterDefault(d)] :
                     d \in {Absent, None, IntV(5)}}
  /\ ctrInst \in [new : BOOLEAN, cache : {Absent}]
  /\ \/ hash = None /\ hist = NoHist
     \/ \E n \in {0, 9} :
          hash = BytesV(IntToStr(n)) /\ hist = [NoHist EXCEPT !.count = n]
  /\ ScalarIdle /\ RefIdle /\ ListIdle
  /\ last = Idle

\* instance.counter = value
CounterSetOp(value) ==
  LET r == CounterSet(ctrInst, hash, value)
  IN /\ ctrInst' = r.inst
     /\ hash' = r.hash
     /\ last' = [Idle EXCEPT !.op = "cset", !.arg = value, !.exc = r.exc,
                             !.pre = [inst |-> ctrInst, hash |-> hash],
                             !.env = [inst |-> r.inst, hash |-> r.hash,
                                      count |-> hist.count]]
     /\ UNCHANGED <<ctrField, hist, scalarVars, refVars, listVars>>

\* value = instance.counter
CounterGetOp ==
  LET r == CounterGet(ctrField, ctrInst, hash)
  IN /\ ctrInst' = r.inst
     /\ hash' = r.hash
     /\ last' = [Idle EXCEPT !.op = "cget", !.ret = r.ret,
                             !.reads = r.reads,
                             !.pre = [inst |-> ctrInst, hash |-> hash],
                             !.env = [inst |-> r.inst, hash |-> r.hash,
                                      count |-> hist.count]]
     /\ UNCHANGED <<ctrField, hist, scalarVars, refVars, listVars>>

\* the external increment primitive, applied to the store
Incr(amount) ==
  /\ hist.count + amount \in Counts
  /\ hash' = HIncrBy(hash, amount)
  /\ hist' = [hist EXCEPT !.count = @ + amount]
  /\ UNCHANGED <<ctrField, ctrInst, last, scalarVars, refVars, listVars>>

NextCounter ==
  \/ CounterGetOp
  \/ \E value \in Values : CounterSetOp(value)
  \/ \E amount \in {0 - 1, 1} : Incr(amount)

SpecCounter == InitCounter /\ [][NextCounter]_vars

(***************************************************************************)
(* Properties of the counter, checked under SpecCounter.                   *)
(***************************************************************************)
\* C6: assignment to a Counter field raises for every value, on new and on
\* persisted instances, and leaves the instance and the store as they were.
C6_CounterSetRaises ==
  last.op = "cset" =>
    /\ last.exc = "AttributeError"
    /\ last.env.inst = last.pre.inst
    /\ last.env.hash = last.pre.hash
    /\ ctrInst.cache = Absent

\* reached: an assignment refused on a persisted instance with a stored count
C6_Witness ==
  /\ last.op = "cset" /\ last.exc = "AttributeError"
  /\ ~ctrInst.new /\ last.pre.hash # None /\ last.arg = IntV(1)

\* C7: a Get on a persisted instance reads the store once and returns the
\* stored count of that moment as an integer, 0 when nothing is stored, so
\* every increment made before the Get shows in it; a Get on a new instance
\* returns 0 without a store read, whatever the default; no Get touches the
\* instance's cache slot.
C7_CounterGetReadsStore ==
  last.op = "cget" =>
    /\ last.exc = "none"
    /\ ctrInst.cache = Absent /\ last.env.inst = last.pre.inst
    /\ last.env.hash = last.pre.hash
    /\ ~ctrInst.new => /\ last.reads = <<"hget">>
                       /\ last.ret = IntV(last.env.count)
    /\ ctrInst.new => last.reads = <<>> /\ last.ret = IntV(0)

\* reached: a Get that returns a two-digit count after increments
C7_Witness ==
  /\ last.op = "cget" /\ ~ctrInst.new /\ last.ret = IntV(11)
  /\ hash = BytesV(<<"1", "1">>)

(***************************************************************************)
(* ListField.                                                              *)
(***************************************************************************)
\* ListField.__set__: setattr(instance, '_' + name, value)
ListSet(i, value) == [i EXCEPT !.cache = value]

\* a materialization that keeps the entries that did not resolve
Materialize_KeepNone(val, live) ==
  [n \in 1..Len(val) |-> GetById(live, val[n])]

\* [o for o in [klass.objects.get_by_id(v) for v in val] if o is not None]
Materialize(val, live) ==
  SelectSeq([n \in 1..Len(val) |-> GetById(live, val[n])],
            LAMBDA o : o # None)

\* [klass(v) for v in val] with klass = int
Cast(val) == [n \in 1..Len(val) |-> IntV(ParseInt(val[n].v))]

\* a __get__ that reads the store again on a persisted instance
ListGet_Reread(f, i, mem, live) ==
  IF i.cache # Absent /\ i.new
  THEN [inst |-> i, ret |-> i.cache, reads |-> <<>>]
  ELSE LET val == IF i.new THEN f.default ELSE mem
           out == ListV(IF f.model THEN Materialize(val, live) ELSE Cast(val))
       IN [inst |-> ListSet(i, out), ret |-> out,
           reads |-> (IF i.new THEN <<>> ELSE <<"members">>)
                     \o (IF f.model THEN [n \in 1..Len(val) |-> "get_by_id"]
                                    ELSE <<>>)]

\* ListField.__get__
ListGet(f, i, mem, live) ==
  IF i.cache # Absent THEN [inst |-> i, ret |-> i.cache, reads |-> <<>>]
  ELSE LET val == IF i.new THEN f.default ELSE mem
           out == ListV(IF f.model THEN Materialize(val, live) ELSE Cast(val))
       IN [inst |-> ListSet(i, out), ret |-> out,
           reads |-> (IF i.new THEN <<>> ELSE <<"members">>)
                     \o (IF f.model THEN [n \in 1..Len(val) |-> "get_by_id"]
                                    ELSE <<>>)]

ListIds == {1, 2}                      \* identifiers a stored list names
Elems == {BytesV(IntToStr(id)) : id \in ListIds}
ListValues == {None, ListV(<<>>), ListV(<<ObjV("Other", 1)>>)}

InitList ==
  /\ listField \in [default : {<<>>, <<BytesV(<<"1">>)>>}, model : BOOLEAN,
                    required : {FALSE}, validator : {"none"}, arity : {2},
                    target_type : {Resolved(b) : b \in BOOLEAN}]
  /\ listField.target_type = Resolved(listField.model)
  /\ listInst \in [new : BOOLEAN, cache : {Absent}]
  /\ members = <<>>
  /\ targets \in SUBSET Ids
  /\ refField = RefFieldIdle /\ refInst = RefInstIdle
  /\ ScalarIdle /\ CtrIdle
  /\ last = Idle
  /\ hist = NoHist

Reads(reads, what) ==
  Cardinality({n \in 1..Len(reads) : reads[n] = what})

\* what a Get adds to the history: the number of reads of the backing
\* sequence, and the value it cached and where that value came from
ListTouch(h, i, r) ==
  [h EXCEPT !.moved = FALSE,
            !.count = @ + Reads(r.reads, "members"),
            !.lastSet = IF i.cache = Absent THEN r.ret ELSE @,
            !.first = IF i.cache # Absent THEN @
                      ELSE IF i.new THEN "default" ELSE "store"]

\* value = instance.list
ListGetOp ==
  LET r == ListGet(listField, listInst, members, targets)
  IN /\ listInst' = r.inst
     /\ last' = [Idle EXCEPT !.op = "lget", !.ret = r.ret,
                             !.reads = r.reads,
                             !.pre = listInst.cache # Absent]
     /\ hist' = ListTouch(hist, listInst, r)
     /\ UNCHANGED <<listField, members, targets, refField, refInst,
                    scalarVars, ctrVars>>

\* instance.list = value
ListSetOp(value) ==
  /\ listInst' = ListSet(listInst, value)
  /\ last' = [Idle EXCEPT !.op = "lset", !.arg = value,
                          !.pre = listInst.cache # Absent]
  /\ hist' = [hist EXCEPT !.moved = FALSE, !.lastSet = value,
                          !.first = "set"]
  /\ UNCHANGED <<listField, members, targets, refField, refInst,
                 scalarVars, ctrVars>>

\* a client appends an identifier to the backing sequence
Push(e) ==
  /\ Len(members) < MaxList
  /\ members' = Append(members, e)
  /\ hist' = [hist EXCEPT !.moved = TRUE]
  /\ UNCHANGED <<listField, listInst, targets, refField, refInst,
                 scalarVars, ctrVars, last>>

\* a client removes the first identifier of the backing sequence
Pop ==
  /\ members # <<>>
  /\ members' = Tail(members)
  /\ hist' = [hist EXCEPT !.moved = TRUE]
  /\ UNCHANGED <<listField, listInst, targets, refField, refInst,
                 scalarVars, ctrVars, last>>

\* a client saves or deletes a record of the target model
Retarget(id) ==
  /\ targets' = IF id \in targets THEN targets \ {id} ELSE targets \cup {id}
  /\ hist' = [hist EXCEPT !.moved = TRUE]
  /\ UNCHANGED <<listField, listInst, members, refField, refInst,
                 scalarVars, ctrVars, last>>

NextList ==
  \/ ListGetOp
  \/ \E value \in ListValues : ListSetOp(value)
  \/ \E e \in Elems : Push(e)
  \/ Pop
  \/ \E id \in Ids : Retarget(id)

SpecList == InitList /\ [][NextList]_vars

(***************************************************************************)
(* Properties of the list field, checked under SpecList.                   *)
(***************************************************************************)
\* the stored identifiers that resolve, in stored order
Resolving == SelectSeq(members, LAMBDA e : ParseInt(e.v) \in targets)

\* C8: on a persisted instance of a list field with a model target, the
\* first Get materializes exactly the stored identifiers that get_by_id
\* resolves, each replaced by its object, in stored order; identifiers that
\* do not resolve are dropped and raise nothing.
C8_ListMaterialization ==
  (/\ last.op = "lget" /\ ~last.pre /\ ~hist.moved
   /\ ~listInst.new /\ listField.model) =>
    /\ last.exc = "none"
    /\ last.ret.k = "list"
    /\ Len(last.ret.v) = Len(Resolving)
    /\ \A n \in 1..Len(Resolving) :
         last.ret.v[n] = ObjV("Target", ParseInt(Resolving[n].v))
    /\ listInst.cache = last.ret

\* reached: a stored list whose first identifier no longer resolves
C8_Witness ==
  /\ last.op = "lget" /\ ~last.pre /\ ~hist.moved
  /\ ~listInst.new /\ listField.model
  /\ members = <<BytesV(<<"1">>), BytesV(<<"2">>)>> /\ targets = {2}
  /\ last.ret = ListV(<<ObjV("Target", 2)>>)

(***************************************************************************)
(* Storage codecs: typecast_for_storage and typecast_for_read of each      *)
(* field kind.  A float is <<negative, whole, frac>> with frac counted in   *)
(* units of 10^-7, a date-time is <<seconds, microsecond, aware>> (seconds *)
(* since the epoch of the UTC instant when aware, of the wall clock when   *)
(* naive), a date is a day number since the epoch, a time delta is         *)
(* <<seconds, microseconds>> normalised as timedelta does.                 *)
(***************************************************************************)
FloatV(neg, whole, frac) ==
  [k |-> "float", v |-> <<neg /\ (whole # 0 \/ frac # 0), whole, frac>>]
DateTimeV(s, us, aware) == [k |-> "datetime", v |-> <<s, us, aware>>]
DateV(d) == [k |-> "date", v |-> d]
TimeDeltaV(s, us) == [k |-> "timedelta", v |-> <<s, us>>]
InfV == [k |-> "inf", v |-> 0]          \* float("inf")
NanV == [k |-> "nan", v |-> 0]          \* float("nan")

Million == 1000000
Day == 86400
Hour == 3600

Ok(v) == [exc |-> "none", ret |-> v]
Raise(e) == [exc |-> e, ret |-> None]

\* the store hands back what was written as bytes
Wire(s) == BytesV(s)

Abs(n) == IF n < 0 THEN 0 - n ELSE n

\* n / d rounded to the nearest integer, ties to even
RoundDiv(n, d) ==
  LET q == n \div d
      r == n % d
  IN IF 2 * r > d \/ (2 * r = d /\ q % 2 = 1) THEN q + 1 ELSE q

\* float(n) of an integer
IntToFloat(n) == FloatV(n < 0, Abs(n), 0)

\* the integer part of a float, rounded toward zero as "%d" does
Trunc(x) == IF x.v[1] THEN 0 - x.v[2] ELSE x.v[2]

\* a float split into <<floor of its seconds, microseconds>>, the
\* microseconds rounded to nearest, ties to even
SplitMicros(x) ==
  LET r == RoundDiv(x.v[3], 10)
      whole == IF r = Million THEN x.v[2] + 1 ELSE x.v[2]
      us == IF r = Million THEN 0 ELSE r
  IN IF ~x.v[1] THEN <<whole, us>>
     ELSE IF us = 0 THEN <<0 - whole, 0>>
     ELSE <<0 - whole - 1, Million - us>>

RECURSIVE Pad(_, _)
Pad(s, w) == IF Len(s) >= w THEN s ELSE Pad(<<"0">> \o s, w)

IsDigit(c) == c \in {"0", "1", "2", "3", "4", "5", "6", "7", "8", "9"}

Unsigned(s) == IF s # <<>> /\ Head(s) = "-" THEN Tail(s) ELSE s

\* int(x) of a str or bytes
PyInt(x) ==
  IF x.k \notin {"str", "bytes"} THEN Raise("TypeError")
  ELSE LET s == Strip(x.v)
           u == Unsigned(s)
       IN IF u # <<>> /\ \A i \in 1..Len(u) : IsDigit(u[i])
          THEN Ok(IntV(ParseInt(s))) ELSE Raise("ValueError")

Inf == <<"i", "n", "f">>
Nan == <<"n", "a", "n">>

\* float(x) of a str or bytes: a decimal literal, "inf" or "nan"
PyFloat(x) ==
  IF x.k \notin {"str", "bytes"} THEN Raise("TypeError")
  ELSE LET s == Strip(x.v)
           u == Unsigned(s)
           dots == {i \in 1..Len(u) : u[i] = "."}
           dot == IF dots = {} THEN Len(u) + 1 ELSE CHOOSE i \in dots : TRUE
           whole == SubSeq(u, 1, dot - 1)
           frac == SubSeq(u, dot + 1, Len(u))
           digits == whole \o frac
           units == ParseNat(frac \o [i \in 1..(7 - Len(frac)) |-> "0"])
       IN IF u = Inf THEN Ok(InfV)
          ELSE IF u = Nan THEN Ok(NanV)
          ELSE IF Cardinality(dots) <= 1 /\ digits # <<>> /\ Len(frac) <= 7
                  /\ \A i \in 1..Len(digits) : IsDigit(digits[i])
          THEN Ok(FloatV(s # u, ParseNat(whole), units))
          ELSE Raise("ValueError")

\* "%f" % x
FormatF(x) ==
  LET r == RoundDiv(x.v[3], 10)
      whole == IF r = Million THEN x.v[2] + 1 ELSE x.v[2]
      frac == IF r = Million THEN 0 ELSE r
  IN (IF x.v[1] THEN <<"-">> ELSE <<>>)
     \o NatToStr(whole) \o <<".">> \o Pad(NatToStr(frac), 6)

\* Attribute.typecast_for_read: value.decode('utf-8')
Attribute_typecast_for_read(value) ==
  IF value.k = "bytes" THEN Ok(StrV(value.v)) ELSE Raise("AttributeError")

\* Attribute.typecast_for_storage, as a Python result
Attribute_typecast_for_storage(value) == Ok(StrV(typecast_for_storage(value)))

\* BooleanField.typecast_for_read: bool(int(value))
BooleanField_typecast_for_read(value) ==
  LET n == PyInt(value)
  IN IF n.exc # "none" THEN n ELSE Ok(BoolV(n.ret.v # 0))

\* BooleanField.typecast_for_storage
BooleanField_typecast_for_storage(value) ==
  IF value = None THEN Ok(StrV(<<"0">>))
  ELSE Ok(StrV(IF Truthy(value) THEN <<"1">> ELSE <<"0">>))

\* IntegerField.typecast_for_read: int(value)
IntegerField_typecast_for_read(value) == PyInt(value)

\* IntegerField.typecast_for_storage
IntegerField_typecast_for_storage(value) ==
  IF value = None THEN Ok(StrV(<<"0">>)) ELSE Ok(StrV(Str(value)))

\* FloatField.typecast_for_read: float(value)
FloatField_typecast_for_read(value) == PyFloat(value)

\* FloatField.typecast_for_storage: "%f" % value
FloatField_typecast_for_storage(value) ==
  CASE value = None -> Ok(StrV(<<"0">>))
    [] value.k = "float" -> Ok(StrV(FormatF(value)))
    [] value.k = "int" -> Ok(StrV(FormatF(IntToFloat(value.v))))
    [] value.k = "bool" ->
         Ok(StrV(FormatF(IntToFloat(IF value.v THEN 1 ELSE 0))))
    [] OTHER -> Raise("TypeError")

\* the except (TypeError, ValueError) clause of the temporal readers
Caught(r) == IF r.exc \in {"TypeError", "ValueError"} THEN Ok(None) ELSE r

\* DateTimeField.typecast_for_read:
\* datetime.fromtimestamp(float(value), tzutc())
DateTimeField_typecast_for_read(value) ==
  LET f == PyFloat(value)
      t == SplitMicros(f.ret)
  IN Caught(CASE f.exc # "none" -> f
              [] f.ret = InfV -> Raise("OverflowError")
              [] f.ret = NanV -> Raise("ValueError")
              [] OTHER -> Ok(DateTimeV(t[1], t[2], TRUE)))

\* DateTimeField.typecast_for_storage; tz is the local zone's offset
DateTimeField_typecast_for_storage(value, tz) ==
  IF value.k # "datetime" THEN Raise("TypeError")
  ELSE LET utc == IF value.v[3] THEN value.v[1] ELSE value.v[1] - tz
       IN Ok(StrV(IntToStr(utc) \o <<".">> \o Pad(NatToStr(value.v[2]), 6)))

\* DateField.typecast_for_read: date.fromtimestamp(float(value))
DateField_typecast_for_read(value, tz) ==
  LET f == PyFloat(value)
      floor == IF f.ret.v[1] /\ f.ret.v[3] # 0 THEN 0 - f.ret.v[2] - 1
               ELSE Trunc(f.ret)
  IN Caught(CASE f.exc # "none" -> f
              [] f.ret = InfV -> Raise("OverflowError")
              [] f.ret = NanV -> Raise("ValueError")
              [] OTHER -> Ok(DateV((floor + tz) \div Day)))

\* DateField.typecast_for_storage: "%d" % float(timegm(value.timetuple()))
DateField_typecast_for_storage(value) ==
  CASE value.k = "date" -> Ok(StrV(IntToStr(value.v * Day)))
    [] value.k = "datetime" -> Ok(StrV(IntToStr(value.v[1])))
    [] OTHER -> Raise("TypeError")

\* TimeDeltaField._total_seconds
total_seconds(td) ==
  IF td.v[1] >= 0 THEN FloatV(FALSE, td.v[1], td.v[2] * 10)
  ELSE IF td.v[2] = 0 THEN FloatV(TRUE, 0 - td.v[1], 0)
  ELSE FloatV(TRUE, 0 - td.v[1] - 1, (Million - td.v[2]) * 10)

\* TimeDeltaField.typecast_for_read
TimeDeltaField_typecast_for_read(value) ==
  LET f == PyFloat(value)
      t == SplitMicros(f.ret)
  IN IF value = None THEN Ok(TimeDeltaV(0, 0))
     ELSE Caught(CASE f.exc # "none" -> f
                   [] f.ret = InfV -> Raise("OverflowError")
                   [] f.ret = NanV -> Raise("ValueError")
                   [] OTHER -> Ok(TimeDeltaV(t[1], t[2])))

\* TimeDeltaField.typecast_for_storage: "%d" % self._total_seconds(value)
TimeDeltaField_typecast_for_storage(value) ==
  IF value.k # "timedelta" THEN Raise("TypeError")
  ELSE Ok(StrV(IntToStr(Trunc(total_seconds(value)))))

Kinds == {"Attribute", "BooleanField", "IntegerField", "FloatField",
          "DateTimeField", "DateField", "TimeDeltaField"}

\* typecast_for_storage of the field kind
Encode(kind, value, tz) ==
  CASE kind = "Attribute" -> Attribute_typecast_for_storage(value)
    [] kind = "BooleanField" -> BooleanField_typecast_for_storage(value)
    [] kind = "IntegerField" -> IntegerField_typecast_for_storage(value)
    [] kind = "FloatField" -> FloatField_typecast_for_storage(value)
    [] kind = "DateTimeField" -> DateTimeField_typecast_for_storage(value, tz)
    [] kind = "DateField" -> DateField_typecast_for_storage(value)
    [] kind = "TimeDeltaField" -> TimeDeltaField_typecast_for_storage(value)

\* typecast_for_read of the field kind
Decode(kind, value, tz) ==
  CASE kind = "Attribute" -> Attribute_typecast_for_read(value)
    [] kind = "BooleanField" -> BooleanField_typecast_for_read(value)
    [] kind = "IntegerField" -> IntegerField_typecast_for_read(value)
    [] kind = "FloatField" -> FloatField_typecast_for_read(value)
    [] kind = "DateTimeField" -> DateTimeField_typecast_for_read(value)
    [] kind = "DateField" -> DateField_typecast_for_read(value, tz)
    [] kind = "TimeDeltaField" -> TimeDeltaField_typecast_for_read(value)

MaxSec == 1       \* seconds, days and whole units range over -MaxSec..MaxSec

Secs == (0 - MaxSec)..MaxSec
Micros == {0, 500000}
Zones == {0 - Hour, 0, Hour}               \* utc offset of the local zone

\* the values acceptable_types() of the field kind accepts
Accepted(kind) ==
  CASE kind = "Attribute" -> {StrV(s) : s \in Strings}
    [] kind = "BooleanField" -> {BoolV(b) : b \in BOOLEAN}
    [] kind = "IntegerField" ->
         {IntV(n) : n \in Secs} \cup {BoolV(b) : b \in BOOLEAN}
    [] kind = "FloatField" ->
         {FloatV(neg, w, f) : neg \in BOOLEAN, w \in 0..MaxSec,
                              f \in {0, 1, 5000000}}
    [] kind = "DateTimeField" ->
         {DateTimeV(s, us, aware) : s \in Secs, us \in Micros,
                                    aware \in BOOLEAN}
    [] kind = "DateField" -> {DateV(d) : d \in Secs}
    [] kind = "TimeDeltaField" ->
         {TimeDeltaV(s, us) : s \in Secs, us \in Micros}

\* values handed to typecast_for_storage
EncodeInputs(kind) == Accepted(kind) \cup {None, StrV(<<"1">>), IntV(1)}

\* texts a hash field may hold
StoredTexts ==
  {<<>>, <<"1">>, <<"0">>, <<"-", "1">>, <<" ", "1">>, <<"1", ".">>,
   <<"1", ".", "5", "0", "0", "0", "0", "0">>,
   <<"-", "1", ".", "5", "0", "0", "0", "0", "0">>,
   <<"8", "6", "4", "0", "0">>, <<"T", "r", "u", "e">>,
   <<"x">>, <<"-">>, <<".">>, <<"1", ".", "1", ".">>, Inf, <<"-">> \o Inf,
   Nan}

\* values handed to typecast_for_read
DecodeInputs == {None} \cup {Wire(s) : s \in StoredTexts}

CodecField(kind) ==
  [kind |-> kind, required |-> FALSE, unique |-> FALSE,
   validator |-> "none", default |-> [callable |-> FALSE, value |-> None]]

InitCodec ==
  /\ field \in {CodecField(kind) : kind \in Kinds}
  /\ inst = InstIdle /\ stored = <<>>
  /\ RefIdle /\ ListIdle /\ CtrIdle
  /\ last = Idle /\ hist = NoHist

Codec(op, value, tz, r) ==
  /\ last' = [Idle EXCEPT !.op = op, !.arg = value, !.ret = r.ret,
                          !.exc = r.exc, !.env = tz]
  /\ UNCHANGED <<field, inst, stored, hist, refVars, listVars, ctrVars>>

\* field.typecast_for_storage(value)
EncodeOp(value, tz) ==
  /\ value \in EncodeInputs(field.kind)
  /\ Codec("encode", value, tz, Encode(field.kind, value, tz))

\* field.typecast_for_read(value)
DecodeOp(value, tz) == Codec("decode", value, tz, Decode(field.kind, value, tz))

\* field.typecast_for_read of what the store returns for
\* field.typecast_for_storage(value)
RoundTrip(kind, value, tz) ==
  LET e == Encode(kind, value, tz)
  IN IF e.exc # "none" THEN e ELSE Decode(kind, Wire(e.ret.v), tz)

RoundTripOp(value, tz) ==
  /\ value \in Accepted(field.kind)
  /\ Codec("roundtrip", value, tz, RoundTrip(field.kind, value, tz))

AllInputs == UNION {EncodeInputs(kind) : kind \in Kinds}

NextCodec ==
  \/ \E value \in AllInputs, tz \in Zones : EncodeOp(value, tz)
  \/ \E value \in DecodeInputs, tz \in Zones : DecodeOp(value, tz)
  \/ \E value \in AllInputs, tz \in Zones : RoundTripOp(value, tz)

SpecCodec == InitCodec /\ [][NextCodec]_vars

\* a == b in Python
PyEq(a, b) ==
  LET num(x) == CASE x.k = "float" -> x
                  [] x.k = "int" -> IntToFloat(x.v)
                  [] x.k = "bool" -> IntToFloat(IF x.v THEN 1 ELSE 0)
  IN IF {a.k, b.k} \subseteq {"float", "int", "bool"} THEN num(a) = num(b)
     ELSE a.k = b.k /\ a.v = b.v

\* the documented precision of a stored value: a time delta keeps its whole
\* seconds; a date-time keeps its microseconds
Truncated(v) ==
  IF v.k = "timedelta" THEN TimeDeltaV(Trunc(total_seconds(v)), 0) ELSE v

\* C11: for every field kind and every accepted value v,
\* typecast_for_read(typecast_for_storage(v)) returns a value equal to v, up
\* to the truncation of time deltas to whole seconds (date-times are already
\* at microsecond precision)
C11_RoundTrip ==
  last.op = "roundtrip" =>
    last.exc = "none" /\ PyEq(last.ret, Truncated(last.arg))

\* an aware date-time half a second before the epoch comes back a second
\* earlier
C11_Witness ==
  /\ last.op = "roundtrip" /\ field.kind = "DateTimeField"
  /\ last.arg = DateTimeV(0 - 1, 500000, TRUE)
  /\ last.ret = DateTimeV(0 - 2, 500000, TRUE)

Temporal == {"DateTimeField", "DateField", "TimeDeltaField"}

\* a stored text that is not a finite decimal timestamp
Malformed(x) ==
  LET f == PyFloat(x) IN f.exc # "none" \/ f.ret.k # "float"

\* C12: encoding None with an integer, float or boolean field yields "0";
\* decoding a malformed stored string with a date-time, date or time-delta
\* field returns None and raises nothing
C12_NullAndMalformed ==
  /\ (last.op = "encode" /\ last.arg = None
      /\ field.kind \in {"IntegerField", "FloatField", "BooleanField"})
     => last.exc = "none" /\ last.ret = StrV(<<"0">>)
  /\ (last.op = "decode" /\ field.kind \in Temporal
      /\ last.arg.k = "bytes" /\ Malformed(last.arg))
     => last.exc = "none" /\ last.ret = None

\* the stored text "inf" makes the date-time reader raise OverflowError
C12_Witness ==
  /\ last.op = "decode" /\ field.kind = "DateTimeField"
  /\ last.arg = Wire(Inf) /\ last.exc = "OverflowError"

\* isinstance(value, <the field's value type>)
OfType(kind, value) ==
  CASE kind = "DateTimeField" -> value.k = "datetime"
    [] kind = "DateField" -> value.k \in {"date", "datetime"}
    [] kind = "TimeDeltaField" -> value.k = "timedelta"

\* C20: encoding with a date-time, date or time-delta field raises a type
\* error only when the value is non-null and not of the field's type
C20_EncodeTypeError ==
  (last.op = "encode" /\ field.kind \in Temporal) =>
    (last.exc = "TypeError" =>
       last.arg # None /\ ~OfType(field.kind, last.arg))

\* encoding None with a date field raises TypeError
C20_Witness ==
  /\ last.op = "encode" /\ field.kind = "DateField"
  /\ last.arg = None /\ last.exc = "TypeError"

(***************************************************************************)
(* When the uniqueness check runs (Spec).                                  *)
(***************************************************************************)
\* C18: validate runs the uniqueness check (the query on the index) exactly
\* when the field has unique set and the value is not None
C18_UniquenessRunsIffPresent ==
  last.op = "validate" =>
    (last.reads = <<"filter">> <=> (field.unique /\ last.arg # None))

\* a unique field holding the integer 0 is validated without the query
C18_Witness ==
  /\ last.op = "validate" /\ field.unique /\ last.arg = IntV(0)
  /\ last.reads = <<>> /\ ~Has(last.errors, "not unique")

(***************************************************************************)
(* ReferenceField: rejected assignments and instances without a reference  *)
(* (SpecRef).                                                              *)
(***************************************************************************)
\* C15: assigning to a reference field a non-null value that is not an
\* instance of the target model raises at the call, and the cached object
\* and <field>_id are left exactly as they were
C15_RejectedSetChangesNothing ==
  (last.op = "rset" /\ last.arg # None /\ ~IsTarget(last.arg)) =>
    /\ last.exc = "TypeError"
    /\ refInst = last.pre

\* reached: a wrong-typed value assigned over a cached object and a set
\* identifier
C15_Witness ==
  /\ last.op = "rset" /\ last.arg = ObjV("Other", 1)
  /\ last.exc = "TypeError"
  /\ refInst.cache.k = "obj" /\ refInst.fid.k = "int"

\* C14 as stated: Get on a new owning instance never calls get_by_id; it
\* caches the static default and returns it
C14_NewInstanceNeverLooksUp ==
  (last.op = "rget" /\ refInst.new) =>
    /\ last.reads = <<>>
    /\ last.pre.cache = Absent =>
         last.ret = refField.default /\ refInst.cache = refField.default

\* C14, amended: Get on an instance whose <field>_id attribute was never
\* set (a new instance before any accepted Set) never calls get_by_id; with
\* nothing cached it caches the static default and returns it
C14_UnsetReferenceGetsDefault ==
  /\ (last.op = "rget" /\ last.pre.fid = Absent) =>
       /\ last.reads = <<>>
       /\ last.pre.cache = Absent =>
            last.ret = refField.default /\ refInst.cache = refField.default
  /\ (refInst.new /\ hist.rlast = NoSet) => refInst.fid = Absent

\* reached: the first Get of a new instance returns a non-null default
C14_Witness ==
  /\ last.op = "rget" /\ refInst.new /\ hist.rlast = NoSet
  /\ last.pre.cache = Absent /\ last.pre.fid = Absent
  /\ last.ret = ObjV("Target", 1) /\ last.reads = <<>>

(***************************************************************************)
(* ReferenceField.validate (SpecRefValidate).  A validator is a callable   *)
(* of one or of two parameters; a call with another number of arguments    *)
(* raises TypeError.                                                       *)
(***************************************************************************)
\* validator(*args)
Apply(v, arity, args) ==
  IF Len(args) # arity THEN [exc |-> "TypeError", errors |-> <<>>]
  ELSE [exc |-> "none",
        errors |-> CallValidator(v, FieldName, args[Len(args)])]

\* ReferenceField.validate
RefValidate(f, i, live) ==
  LET got == RefGet(f, i, live)
      val == got.ret
      e1 == IF Truthy(val) /\ ~IsTarget(val)
            THEN <<<<FieldName, "bad type for reference">>>> ELSE <<>>
      e2 == IF f.required /\ ~Truthy(val)
            THEN <<<<FieldName, "required">>>> ELSE <<>>
      called == f.validator # "none"
      r == IF called THEN Apply(f.validator, f.arity, <<val>>)
           ELSE [exc |-> "none", errors |-> <<>>]
      errors == e1 \o e2 \o r.errors
  IN [inst |-> got.inst, val |-> val, reads |-> got.reads,
      exc |-> IF r.exc # "none" THEN r.exc
              ELSE IF errors # <<>> THEN "FieldValidationError" ELSE "none",
      errors |-> IF r.exc # "none" THEN <<>> ELSE errors,
      vargs |-> IF called THEN <<<<val>>>> ELSE <<>>]

InitRefValidate ==
  /\ refField \in [default : RefDefaults \cup {ObjV("Other", 1)},
                   required : BOOLEAN, validator : Validators,
                   arity : {1, 2}, attname : {DerivedAttname}]
  /\ refInst \in [new : BOOLEAN, cache : {Absent},
                  fid : {Absent, None, IntV(1)}]
  /\ refInst.new => refInst.fid = Absent
  /\ targets \in SUBSET Ids
  /\ ScalarIdle /\ ListIdle /\ CtrIdle
  /\ last = Idle
  /\ hist = NoHist

\* field.validate(instance) of a reference field
RefValidateOp ==
  LET r == RefValidate(refField, refInst, targets)
  IN /\ refInst' = r.inst
     /\ last' = [Idle EXCEPT !.op = "rvalidate", !.arg = r.val,
                             !.exc = r.exc, !.errors = r.errors,
                             !.reads = r.reads, !.vargs = r.vargs,
                             !.pre = refInst, !.env = targets]
     /\ hist' = IF refInst.cache = Absent /\ r.inst.cache # Absent
                THEN [hist EXCEPT !.stale = FALSE] ELSE hist
     /\ UNCHANGED <<refField, targets, scalarVars, listVars, ctrVars>>

NextRefValidate ==
  \/ RefGetOp
  \/ \E value \in RefValues : RefSetOp(value)
  \/ RefValidateOp

SpecRefValidate == InitRefValidate /\ [][NextRefValidate]_vars

\* C19: a configured custom validator is invoked on every validate call
\* with the pair (field name, current value), whether or not earlier rules
\* recorded errors, and the error tuples it returns come after the earlier
\* errors; stated for the reference field
C19_ValidatorGetsNameAndValue ==
  (last.op = "rvalidate" /\ refField.validator # "none") =>
    /\ last.vargs = <<<<FieldName, last.arg>>>>
    /\ last.exc # "TypeError"
    /\ CustomOf(last.errors)
         = CallValidator(refField.validator, FieldName, last.arg)
    /\ \A n \in 1..(Len(last.errors) - 1) :
         Rank(last.errors[n]) <= Rank(last.errors[n + 1])

\* a validator of the two parameters (name, value) is called with the value
\* alone and the call raises TypeError
C19_Witness ==
  /\ last.op = "rvalidate" /\ refField.validator = "reject"
  /\ refField.arity = 2 /\ last.vargs = <<<<last.arg>>>>
  /\ last.exc = "TypeError"

(***************************************************************************)
(* ListField: one read of the backing sequence per instance (SpecList).    *)
(***************************************************************************)
\* C16: a list field reads its backing sequence from the store at most once
\* per instance, on the first Get of a persisted instance with nothing
\* cached; a new instance starts from the static default with no store
\* read; every later Get returns the cached sequence, whatever happened to
\* the backing sequence or its targets since
C16_ReadsStoreOnce ==
  /\ hist.count <= 1
  /\ listInst.cache # Absent => listInst.cache = hist.lastSet
  /\ last.op = "lget" =>
       /\ Reads(last.reads, "members")
            = (IF ~last.pre /\ ~listInst.new THEN 1 ELSE 0)
       /\ last.pre => last.reads = <<>>
       /\ last.ret = hist.lastSet
       /\ (~last.pre /\ listInst.new) =>
            /\ hist.first = "default"
            /\ Len(last.ret.v) <= Len(listField.default)

\* reached: a Get returns the empty sequence cached from the store although
\* the backing sequence has gained elements since
C16_Witness ==
  /\ last.op = "lget" /\ last.pre /\ ~listInst.new /\ ~listField.model
  /\ hist.first = "store" /\ hist.count = 1
  /\ last.ret = ListV(<<>>) /\ Len(members) = MaxList

(***************************************************************************)
(* ListField.validate (SpecListValidate).                                  *)
(***************************************************************************)
\* isinstance(item, self.value_type()): a Target model or int
IsElement(f, item) ==
  IF f.model THEN IsTarget(item) ELSE item.k \in {"int", "bool"}

\* ListField.validate
ListValidate(f, i, mem, live) ==
  LET got == ListGet(f, i, mem, live)
      val == got.ret
      bad == SelectSeq(val.v, LAMBDA item : ~IsElement(f, item))
      e1 == IF ~Truthy(val) THEN <<>>
            ELSE IF val.k # "list" THEN <<<<FieldName, "bad type">>>>
            ELSE [n \in 1..Len(bad) |-> <<FieldName, "bad type in list">>]
      e2 == IF f.required /\ ~Truthy(val)
            THEN <<<<FieldName, "required">>>> ELSE <<>>
      called == f.validator # "none"
      r == IF called THEN Apply(f.validator, f.arity, <<val>>)
           ELSE [exc |-> "none", errors |-> <<>>]
      errors == e1 \o e2 \o r.errors
  IN [inst |-> got.inst, val |-> val, reads |-> got.reads,
      exc |-> IF r.exc # "none" THEN r.exc
              ELSE IF errors # <<>> THEN "FieldValidationError" ELSE "none",
      errors |-> IF r.exc # "none" THEN <<>> ELSE errors,
      vargs |-> IF called THEN <<<<val>>>> ELSE <<>>]

\* values assigned to a list field before it is validated
ListValidateValues ==
  {None, IntV(0), IntV(1), StrV(<<>>), ListV(<<>>),
   ListV(<<IntV(1)>>), ListV(<<ObjV("Target", 1)>>),
   ListV(<<ObjV("Other", 1), IntV(1)>>),
   ListV(<<ObjV("Other", 1), StrV(<<"1">>)>>)}

InitListValidate ==
  /\ listField \in [default : {<<>>, <<BytesV(<<"1">>)>>}, model : BOOLEAN,
                    required : BOOLEAN, validator : Validators,
                    arity : {1},
                    target_type : {Resolved(b) : b \in BOOLEAN}]
  /\ listField.target_type = Resolved(listField.model)
  /\ listInst \in [new : BOOLEAN, cache : {Absent}]
  /\ members \in {<<>>, <<BytesV(<<"1">>)>>}
  /\ targets \in SUBSET Ids
  /\ refField = RefFieldIdle /\ refInst = RefInstIdle
  /\ ScalarIdle /\ CtrIdle
  /\ last = Idle
  /\ hist = NoHist

\* field.validate(instance) of a list field
ListValidateOp ==
  LET r == ListValidate(listField, listInst, members, targets)
  IN /\ listInst' = r.inst
     /\ last' = [Idle EXCEPT !.op = "lvalidate", !.arg = r.val,
                             !.exc = r.exc, !.errors = r.errors,
                             !.reads = r.reads, !.vargs = r.vargs,
                             !.pre = listInst.cache # Absent]
     /\ hist' = ListTouch(hist, listInst, [ret |-> r.val, reads |-> r.reads])
     /\ UNCHANGED <<listField, members, targets, refField, refInst,
                    scalarVars, ctrVars>>

NextListValidate ==
  \/ \E value \in ListValidateValues : ListSetOp(value)
  \/ ListValidateOp

SpecListValidate == InitListValidate /\ [][NextListValidate]_vars

\* the elements of a sequence that are not of the resolved element type
BadItems(val) ==
  Cardinality({n \in 1..Len(val.v) : ~IsElement(listField, val.v[n])})

\* C17: list validate records (name, 'bad type') when the value is not a
\* sequence; otherwise one (name, 'bad type in list') per element that is
\* not of the element type; (name, 'required') exactly when the field is
\* required and the sequence is empty or absent; and all recorded errors
\* are raised together in one aggregate failure
C17_ListValidateRules ==
  last.op = "lvalidate" =>
    LET val == last.arg
        isSeq == val.k = "list"
    IN /\ Has(last.errors, "bad type") <=> (val # None /\ ~isSeq)
       /\ Count(last.errors, "bad type in list")
            = (IF isSeq THEN BadItems(val) ELSE 0)
       /\ Has(last.errors, "required")
            <=> (listField.required /\ (val = None \/ val = ListV(<<>>)))
       /\ last.exc = (IF last.errors # <<>> THEN "FieldValidationError"
                                            ELSE "none")

\* the integer 0 held by a list field that is not required passes validate
C17_Witness ==
  /\ last.op = "lvalidate" /\ last.arg = IntV(0) /\ ~listField.required
  /\ listField.validator = "none"
  /\ last.exc = "none" /\ last.errors = <<>>

(***************************************************************************)
(* CharField.validate (SpecChar).  The field record carries max_length.    *)
(***************************************************************************)
\* len(val) > self.max_length, for a truthy val; len() of a value that is
\* not a string raises TypeError
TooLong(f, val) ==
  IF ~Truthy(val) THEN [exc |-> "none", long |-> FALSE]
  ELSE IF val.k # "str" THEN [exc |-> "TypeError", long |-> FALSE]
  ELSE [exc |-> "none", long |-> Len(val.v) > f.max_length]

\* a validate that forgets the base errors when the value is too long
CharValidate_NoBase(f, i, st, produced) ==
  LET base == validate(f, i, st, produced)
      val == AttrGet(f, base.inst, produced).ret
      t == TooLong(f, val)
      errors == IF t.long THEN <<<<FieldName, "exceeds max length">>>>
                ELSE base.errors
  IN [inst |-> base.inst, val |-> val, reads |-> base.reads,
      calls |-> base.calls,
      exc |-> IF base.exc \notin {"none", "FieldValidationError"}
              THEN base.exc
              ELSE IF t.exc # "none" THEN t.exc
              ELSE IF errors # <<>> THEN "FieldValidationError" ELSE "none",
      errors |-> IF base.exc \notin {"none", "FieldValidationError"}
                    \/ t.exc # "none" THEN <<>> ELSE errors]

\* CharField.validate
CharValidate(f, i, st, produced) ==
  LET base == validate(f, i, st, produced)
      val == AttrGet(f, base.inst, produced).ret
      t == TooLong(f, val)
      errors == base.errors
                \o (IF t.long THEN <<<<FieldName, "exceeds max length">>>>
                              ELSE <<>>)
  IN [inst |-> base.inst, val |-> val, reads |-> base.reads,
      calls |-> base.calls,
      exc |-> IF base.exc \notin {"none", "FieldValidationError"}
              THEN base.exc
              ELSE IF t.exc # "none" THEN t.exc
              ELSE IF errors # <<>> THEN "FieldValidationError" ELSE "none",
      errors |-> IF base.exc \notin {"none", "FieldValidationError"}
                    \/ t.exc # "none" THEN <<>> ELSE errors]

InitChar ==
  /\ field \in [required : BOOLEAN, unique : BOOLEAN,
                validator : {"none", "reject"},
                default : {[callable |-> FALSE, value |-> None],
                           [callable |-> TRUE, value |-> None]},
                max_length : {0, 1}]
  /\ inst \in [id : {NoId, 1}, cache : {Absent}]
  /\ stored \in {<<>>} \cup [{MaxId} -> IndexVals]
  /\ RefIdle /\ ListIdle /\ CtrIdle
  /\ last = Idle
  /\ hist = NoHist

\* field.validate(instance) of a CharField
CharValidateOp ==
  \E produced \in Produced :
    LET r == CharValidate(field, inst, stored, produced)
    IN /\ inst' = r.inst
       /\ last' = [Idle EXCEPT !.op = "cvalidate", !.arg = r.val,
                               !.exc = r.exc, !.errors = r.errors,
                               !.reads = r.reads, !.calls = r.calls,
                               !.pre = inst.cache # Absent]
       /\ hist' = Touch(hist, "get", r.calls)
       /\ UNCHANGED <<field, stored, refVars, listVars, ctrVars>>

NextChar ==
  \/ \E value \in Values : Set(value)
  \/ CharValidateOp

SpecChar == InitChar /\ [][NextChar]_vars

\* the errors of the base rules for the validated value
BaseErrors(val) ==
  Accumulate(TypeRule(val), RequiredRule(field, val),
             UniqueRule(field, inst, stored, val).error,
             ValidatorRule(field, val))

\* C13: CharField validate reports (name, 'exceeds max length') exactly
\* when the value is a non-empty string longer than max_length; the error
\* is in the one aggregate failure that carries the base rule errors, after
\* them; and a non-blank string that is too long has no 'bad type' and no
\* 'required' error
C13_ExceedsMaxLength ==
  last.op = "cvalidate" =>
    LET val == last.arg
        errs == last.errors
        long == val.k = "str" /\ Len(val.v) > 0
                  /\ Len(val.v) > field.max_length
    IN /\ Has(errs, "exceeds max length") <=> long
       /\ Count(errs, "exceeds max length") <= 1
       /\ long =>
            /\ last.exc = "FieldValidationError"
            /\ errs = BaseErrors(val)
                        \o <<<<FieldName, "exceeds max length">>>>
       /\ (long /\ ~Blank(val)) =>
            ~Has(errs, "bad type") /\ ~Has(errs, "required")

\* reached: a too long blank string of a required field with a rejecting
\* validator: required, the custom errors, then exceeds max length
C13_Witness ==
  /\ last.op = "cvalidate" /\ field.required /\ field.max_length = 1
  /\ last.arg = StrV(<<" ", " ">>)
  /\ last.errors = <<<<FieldName, "required">>, <<FieldName, "custom1">>,
                     <<FieldName, "custom2">>,
                     <<FieldName, "exceeds max length">>>>

(***************************************************************************)
(* The descriptor objects themselves (SpecDescriptor): the memoized        *)
(* _attname of a reference field and the _target_type of a list field      *)
(* that names its target model by a string.                                *)
(***************************************************************************)
\* ReferenceField.attname
attname(f) ==
  IF f.attname = NoAttname
  THEN [field |-> [f EXCEPT !.attname = DerivedAttname],
        ret |-> DerivedAttname]
  ELSE [field |-> f, ret |-> f.attname]

Registry == {"Target"}                 \* the model classes that are defined

\* get_model_from_key(name): the class of that name, or None
get_model_from_key(name) ==
  IF name \in Registry THEN ClassV(name) ELSE None

\* ListField.value_type
value_type(f) ==
  IF f.target_type.k = "name"
  THEN LET t == get_model_from_key(f.target_type.v)
           g == [f EXCEPT !.target_type = t]
       IN IF t = None THEN [field |-> g, exc |-> "ValueError", ret |-> None]
          ELSE [field |-> g, exc |-> "none", ret |-> t]
  ELSE [field |-> f, exc |-> "none", ret |-> f.target_type]

\* ReferenceField.__set__, with the descriptor it leaves
DescRefSet(f, i, value) ==
  LET r == RefSet(i, value)
  IN [field |-> IF r.exc = "TypeError" THEN f ELSE attname(f).field,
      inst |-> r.inst, exc |-> r.exc]

\* ReferenceField.__get__, with the descriptor it leaves
DescRefGet(f, i, live) ==
  LET r == RefGet(f, i, live)
  IN [field |-> IF i.cache # Absent THEN f ELSE attname(f).field,
      inst |-> r.inst, ret |-> r.ret, reads |-> r.reads]

\* ListField.__get__, with the descriptor it leaves
DescListGet(f, i, mem, live) ==
  LET vt == value_type(f)
      r == ListGet(vt.field, i, mem, live)
  IN IF i.cache # Absent
     THEN [field |-> f, inst |-> i, ret |-> i.cache, exc |-> "none",
           reads |-> <<>>]
     ELSE IF vt.exc # "none"
     THEN [field |-> vt.field, inst |-> i, ret |-> None, exc |-> vt.exc,
           reads |-> IF i.new THEN <<>> ELSE <<"members">>]
     ELSE [field |-> vt.field, inst |-> r.inst, ret |-> r.ret,
           exc |-> "none", reads |-> r.reads]

\* ListField.validate, with the descriptor it leaves
DescListValidate(f, i, mem, live) ==
  LET got == DescListGet(f, i, mem, live)
      items == Truthy(got.ret) /\ got.ret.k = "list"
      vt == value_type(got.field)
      v == ListValidate(vt.field, got.inst, mem, live)
  IN IF got.exc # "none"
     THEN [field |-> got.field, inst |-> got.inst, val |-> None,
           exc |-> got.exc, errors |-> <<>>]
     ELSE IF items /\ vt.exc # "none"
     THEN [field |-> vt.field, inst |-> got.inst, val |-> got.ret,
           exc |-> vt.exc, errors |-> <<>>]
     ELSE IF items /\ vt.ret = None
     THEN [field |-> vt.field, inst |-> got.inst, val |-> got.ret,
           exc |-> "TypeError", errors |-> <<>>]
     ELSE [field |-> IF items THEN vt.field ELSE got.field,
           inst |-> v.inst, val |-> v.val, exc |-> v.exc,
           errors |-> v.errors]

TargetTypes == {NameV("Target"), NameV("Missing"), ClassV("Target"),
                ClassV("int")}

InitDescriptor ==
  /\ refField \in [default : {None}, required : {FALSE},
                   validator : {"none"}, arity : {2},
                   attname : {NoAttname, "owner_id"}]
  /\ refInst \in [new : {FALSE}, cache : {Absent}, fid : {Absent, IntV(1)}]
  /\ listField \in [default : {<<>>}, model : BOOLEAN, required : {FALSE},
                    validator : {"none"}, arity : {1},
                    target_type : TargetTypes]
  /\ listField.model = (listField.target_type # ClassV("int"))
  /\ listInst \in [new : BOOLEAN, cache : {Absent}]
  /\ members \in {<<>>, <<BytesV(<<"1">>)>>}
  /\ targets \in SUBSET {1}
  /\ ScalarIdle /\ CtrIdle
  /\ last = Idle
  /\ hist = NoHist

Desc(op, arg, ret, exc) ==
  /\ last' = [Idle EXCEPT !.op = op, !.arg = arg, !.ret = ret, !.exc = exc,
                          !.env = [ref |-> refField, list |-> listField]]
  /\ UNCHANGED <<hist, scalarVars, ctrVars, members, targets>>

\* field.attname of the reference field
AttnameQuery ==
  LET r == attname(refField)
  IN /\ refField' = r.field
     /\ Desc("attname", None, None, "none")
     /\ UNCHANGED <<refInst, listField, listInst>>

\* instance.ref = value
DescRefSetOp(value) ==
  LET r == DescRefSet(refField, refInst, value)
  IN /\ refField' = r.field
     /\ refInst' = r.inst
     /\ Desc("rset", value, None, r.exc)
     /\ UNCHANGED <<listField, listInst>>

\* value = instance.ref
DescRefGetOp ==
  LET r == DescRefGet(refField, refInst, targets)
  IN /\ refField' = r.field
     /\ refInst' = r.inst
     /\ Desc("rget", None, r.ret, "none")
     /\ UNCHANGED <<listField, listInst>>

\* field.value_type() of the list field
ValueTypeQuery ==
  LET r == value_type(listField)
  IN /\ listField' = r.field
     /\ Desc("value_type", None, r.ret, r.exc)
     /\ UNCHANGED <<refField, refInst, listInst>>

\* value = instance.list
DescListGetOp ==
  LET r == DescListGet(listField, listInst, members, targets)
  IN /\ listField' = r.field
     /\ listInst' = r.inst
     /\ Desc("lget", None, r.ret, r.exc)
     /\ UNCHANGED <<refField, refInst>>

\* instance.list = value
DescListSetOp(value) ==
  /\ listInst' = ListSet(listInst, value)
  /\ Desc("lset", value, None, "none")
  /\ UNCHANGED <<refField, refInst, listField>>

\* field.validate(instance) of the list field
DescListValidateOp ==
  LET r == DescListValidate(listField, listInst, members, targets)
  IN /\ listField' = r.field
     /\ listInst' = r.inst
     /\ Desc("lvalidate", r.val, None, r.exc)
     /\ UNCHANGED <<refField, refInst>>

NextDescriptor ==
  \/ AttnameQuery
  \/ \E value \in {None, IntV(1), ObjV("Target", 1)} : DescRefSetOp(value)
  \/ DescRefGetOp
  \/ ValueTypeQuery
  \/ DescListGetOp
  \/ \E value \in {ListV(<<>>), ListV(<<IntV(1)>>)} : DescListSetOp(value)
  \/ DescListValidateOp

SpecDescriptor == InitDescriptor /\ [][NextDescriptor]_vars

\* C21: no Get, Set, Validate, value_type() or attname query changes any
\* attribute of a field descriptor; only the per-instance values change
C21_DescriptorImmutable ==
  [][refField' = refField /\ listField' = listField /\ field' = field]_vars

\* a value_type() query that raised ValueError has left None as the list
\* field's target type
C21_Witness ==
  /\ last.op = "value_type" /\ last.exc = "ValueError"
  /\ last.env.list.target_type = NameV("Missing")
  /\ listField.target_type = None

\* the next value_type() query on that descriptor returns None and raises
\* nothing
C21_WitnessSecond ==
  /\ last.op = "value_type" /\ last.exc = "none" /\ last.ret = None
  /\ last.env.list.target_type = None

(***************************************************************************)
(* Two tasks validating and saving new instances (SpecRace).  inst maps    *)
(* each task to its instance and its position; hist maps each task to the  *)
(* records its uniqueness query returned.                                  *)
(***************************************************************************)
MaxTasks == 2

Tasks == 1..MaxTasks
Existing == MaxTasks + 1               \* identifier of a record saved before
RaceValues == {StrV(<<"1">>), StrV(<<"1", " ">>)}

\* the instance a task holds
InstanceOf(t) == [id |-> inst[t].id, cache |-> inst[t].cache]

InitRace ==
  /\ field \in [required : {FALSE}, unique : BOOLEAN, validator : {"none"},
                default : {[callable |-> FALSE, value |-> None]}]
  /\ inst \in [Tasks -> [id : {NoId}, cache : RaceValues, pc : {"new"},
                         errors : {<<>>}]]
  /\ stored \in {<<>>} \cup [{Existing} -> IndexVals]
  /\ hist = [t \in Tasks |-> {}]
  /\ RefIdle /\ ListIdle /\ CtrIdle
  /\ last = Idle

\* task t: field.validate(instance); a failure abandons the save
TaskValidate(t) ==
  /\ inst[t].pc = "new"
  /\ LET r == validate(field, InstanceOf(t), stored, None)
     IN /\ inst' = [inst EXCEPT ![t].pc = IF r.exc = "none" THEN "valid"
                                                            ELSE "failed",
                                ![t].errors = r.errors]
        /\ hist' = [hist EXCEPT ![t] = IF r.reads = <<>> THEN {}
                                       ELSE Filter(stored, Str(r.val))]
        /\ last' = [Idle EXCEPT !.op = "validate", !.arg = r.val,
                                !.exc = r.exc, !.errors = r.errors,
                                !.reads = r.reads, !.env = t]
  /\ UNCHANGED <<field, stored, refVars, listVars, ctrVars>>

\* task t: the save that follows a clean validation writes the record under
\* a fresh identifier
TaskSave(t) ==
  /\ inst[t].pc = "valid"
  /\ stored' = (t :> Str(inst[t].cache)) @@ stored
  /\ inst' = [inst EXCEPT ![t].pc = "saved", ![t].id = t]
  /\ last' = [Idle EXCEPT !.op = "save", !.arg = inst[t].cache, !.env = t]
  /\ UNCHANGED <<field, hist, refVars, listVars, ctrVars>>

NextRace ==
  \/ \E t \in Tasks : TaskValidate(t)
  \/ \E t \in Tasks : TaskSave(t)

SpecRace == InitRace /\ [][NextRace]_vars

\* two tasks that have stored records carrying the same value
Duplicates(t, u) ==
  /\ t # u /\ inst[t].pc = "saved" /\ inst[u].pc = "saved"
  /\ stored[t] = stored[u]

\* C22: the uniqueness check is a plain read of the store with no guard
\* against concurrent writers: a validation reports 'not unique' exactly
\* when its own query found a record, whatever other tasks have validated
\* and not yet written; so two tasks end with the same value of a unique
\* field stored exactly when each validated before the other wrote
C22_UniquenessIsAPlainRead ==
  /\ \A t \in Tasks :
       /\ inst[t].pc # "new" =>
            (Has(inst[t].errors, "not unique")
               <=> (field.unique /\ hist[t] # {}))
       /\ inst[t].pc = "failed" <=> inst[t].errors # <<>>
       /\ t \in DOMAIN stored <=> inst[t].pc = "saved"
  /\ \A t, u \in Tasks :
       (field.unique /\ Duplicates(t, u)) =>
         /\ t \notin hist[u] /\ u \notin hist[t]
         /\ inst[t].errors = <<>> /\ inst[u].errors = <<>>
  /\ last.op = "validate" => last.reads \in {<<>>, <<"filter">>}

\* reached: both tasks validated before either wrote, neither validation
\* reported 'not unique', and both records are stored with the same value
\* of a unique field
C22_Witness ==
  /\ field.unique /\ Duplicates(1, 2)
  /\ inst[1].errors = <<>> /\ inst[2].errors = <<>>
  /\ hist[1] = {} /\ hist[2] = {}

====
